---- MODULE Spec2Model ----
(***************************************************************************)
(* Model of the MatrixPortal photo slideshow (src/circuitpy.py): the       *)
(* PhotoDisplay object, its run() loop, image adoption and the temporal    *)
(* dither engine; and of the image converter (src/bmp_convert.py): its     *)
(* geometry, its option checks and its batch loop.                         *)
(*                                                                         *)
(* Conventions                                                             *)
(*  - A pixel shader object (displayio.Palette / displayio.ColorConverter) *)
(*    is a record [type, colors]; colors is the palette table, entry i of  *)
(*    the Python palette being colors[i+1].  Python's None is NoShader.    *)
(*  - A colour is the 24-bit integer 0xRRGGBB the palette stores.          *)
(*  - A bitmap object is named by the artifact it was decoded from; its    *)
(*    geometry and index grid are BitmapOf(name).  The program never       *)
(*    writes to a bitmap.                                                  *)
(*  - A displayio.Group is named by what it holds: "test" for the label of *)
(*    show_test_pattern, otherwise the name of the bitmap of its TileGrid. *)
(*  - External collaborators (requests.get, adafruit_imageload.load,       *)
(*    displayio constructors, the display) may raise; every such outcome   *)
(*    is an input of the action that calls them.  print() and traceback    *)
(*    are taken not to raise, except in SpecBackoff, which follows an      *)
(*    exception out of change_image into the handler of run().             *)
(*  - Time: the program only tests the truth value of last_image_time and  *)
(*    the difference current_time - last_image_time against CYCLE_TIME, so *)
(*    the clock is kept relative to the last recorded timestamp and        *)
(*    saturates at CYCLE_TIME.  time.monotonic() is taken to be > 0.       *)
(***************************************************************************)
EXTENDS Integers, Sequences, FiniteSets, TLC

None == "None"

\* ---------------------------------------------------------------- settings
CYCLE_TIME == 10

ENABLE_DITHERING == TRUE

IMAGE_URLS == <<"DSC07557.bmp", "IMG_2144.bmp", "IMG_2391.bmp", "IMG_2590.bmp">>

\* granularity of the passage of time (seconds per TimePasses step)
TimeStep == 5

\* longest palette drawn as an input of create_dithered_palette in SpecDither
MaxPalLen == 3

\* ------------------------------------------------------------ arithmetic
Max(a, b) == IF a >= b THEN a ELSE b

Min(a, b) == IF a <= b THEN a ELSE b

SetMax(S) == CHOOSE m \in S : \A n \in S : n <= m

SetMin(S) == CHOOSE m \in S : \A n \in S : m <= n

\* (color >> 16) & 0xFF, (color >> 8) & 0xFF, color & 0xFF
Red(color) == (color \div 65536) % 256

Green(color) == (color \div 256) % 256

Blue(color) == color % 256

\* (r << 16) | (g << 8) | b, for channels already in 0..255
Pack(r, g, b) == r * 65536 + g * 256 + b

\* --------------------------------------------------------- pixel shaders
NoShader == [type |-> "None", colors |-> <<>>]

Palette(colors) == [type |-> "Palette", colors |-> colors]

ColorConverter == [type |-> "ColorConverter", colors |-> <<>>]

\* palette[i] succeeds (no IndexError)
ValidIndex(palette, i) == i >= 0 /\ i < Len(palette.colors)

PaletteAt(palette, i) == palette.colors[i + 1]

\* ------------------------------------------------------- dither patterns
Patterns == {"light", "medium", "heavy"}

dither_patterns ==
  [light |-> <<0, 1, 0, 1>>, medium |-> <<0, 0, 0, 1>>, heavy |-> <<0, 1, 1, 1>>]

\* pattern[self.dither_frame] for the 0-based frame
PatternAt(pattern, frame) == dither_patterns[pattern][frame + 1]

\* the sign taken from the entry of the frame before the counter advanced
BrightnessOffset_prev(pattern, frame) ==
  IF PatternAt(pattern, (frame + 3) % 4) # 0 THEN 1 ELSE -1

BrightnessOffset(pattern, frame) == IF PatternAt(pattern, frame) # 0 THEN 1 ELSE -1

NextFrame_skip(frame) == (frame + 2) % 4

NextFrame(frame) == (frame + 1) % 4

OffsetMagnitude(pattern) ==
  IF pattern = "light" THEN 3
  ELSE IF pattern = "heavy" THEN 12
  ELSE 6

Clamp_high(v) == Max(0, v)

Clamp(v) == Max(0, Min(255, v))

\* the probe loop of lines 471-479 from index i on: the last index reached
\* before palette[i] raises or range(256) ends; stop is the index at which
\* the loop breaks, 256 when it runs to its end
ProbeFrom(palette, i, max_valid_index) ==
  LET stop == CHOOSE k \in i..256 :
                /\ k = 256 \/ ~ValidIndex(palette, k)
                /\ \A j \in i..(k - 1) : ValidIndex(palette, j)
  IN  IF stop > i THEN stop - 1 ELSE max_valid_index

ProbeSize(palette) == ProbeFrom(palette, 0, 0) + 1

\* lines 508-510: the three channels after offset and clamp
DitherChannels(color, offset) ==
  <<Clamp(Red(color) + offset), Clamp(Green(color) + offset), Clamp(Blue(color) + offset)>>

DitherColor(color, offset) ==
  LET rgb == DitherChannels(color, offset) IN Pack(rgb[1], rgb[2], rgb[3])

\* raises: displayio.Palette(palette_size) or another statement of the try
\* body raises, and the handler returns the original palette
create_dithered_palette(original_palette, brightness_offset, pattern, raises) ==
  IF original_palette = NoShader THEN NoShader
  ELSE IF ~ValidIndex(original_palette, 0) THEN original_palette
  ELSE IF raises THEN original_palette
  ELSE LET palette_size == ProbeSize(original_palette)
           offset == brightness_offset * OffsetMagnitude(pattern)
       IN  Palette([i \in 1..palette_size |->
                       DitherColor(PaletteAt(original_palette, i - 1), offset)])

\* -------------------------------------------------------------- artifacts
\* What adafruit_imageload.load can be handed: three indexed BMPs, one
\* direct-colour BMP (decoded with a ColorConverter) and one record that
\* does not decode.
IndexedImages == {"bw", "ramp", "flat"}

DirectImages == {"rgb"}

CorruptImages == {"corrupt"}

\* an 8-bit BMP of three colours whose pixel data names a fourth: load
\* hands back the bitmap and the palette as the file gives them
StrayImages == {"stray"}

\* an 8-bit BMP whose header counts 300 palette colours and whose file holds
\* them: load builds a palette of 300 entries
WideImages == {"wide"}

Artifacts == IndexedImages \cup DirectImages \cup CorruptImages \cup StrayImages
               \cup WideImages

\* geometry and index grid of the bitmap decoded from an artifact;
\* "bw" is a 2x2 checkerboard, "ramp" and "flat" use 20 indices once each
BitmapOf(name) ==
  IF name \in {"ramp", "flat"}
  THEN [width |-> 5, height |-> 4,
        pixels |-> [xy \in (0..4) \X (0..3) |-> xy[1] + 5 * xy[2]]]
  ELSE IF name \in StrayImages
  THEN [width |-> 2, height |-> 2,
        pixels |-> [xy \in (0..1) \X (0..1) |-> xy[1] + 2 * xy[2]]]
  ELSE [width |-> 2, height |-> 2,
        pixels |-> [xy \in (0..1) \X (0..1) |-> (xy[1] + xy[2]) % 2]]

\* the pixel shader decoded with the bitmap
ShaderOf(name) ==
  IF name = "bw" THEN Palette(<<Pack(0, 0, 0), Pack(255, 255, 255)>>)
  ELSE IF name = "ramp"
  THEN Palette([i \in 1..20 |->
         Pack(((i - 1) * 255) \div 19, ((i - 1) * 250) \div 19,
              255 - ((20 - i) * 250) \div 19)])
  ELSE IF name = "flat"
  THEN Palette([i \in 1..20 |->
         Pack(100 + 4 * (i - 1), 90 + 5 * (i - 1), 120 + 3 * (i - 1))])
  ELSE IF name \in StrayImages
  THEN Palette(<<Pack(10, 20, 30), Pack(120, 130, 140), Pack(250, 240, 230)>>)
  ELSE IF name \in WideImages
  THEN Palette([i \in 1..300 |-> Pack((i - 1) % 256, 255 - ((i - 1) % 256), 128)])
  ELSE ColorConverter

\* ------------------------------------------------------ colour analysis
\* int(sample_size ** 0.5)
IntSqrt(n) == CHOOSE k \in 0..n : k * k <= n /\ (k + 1) * (k + 1) > n

\* the step taken from the sample count itself, not from its square root
SampleStep_count(dim, sample_size) == Max(1, dim \div sample_size)

SampleStep(dim, sample_size) == Max(1, dim \div IntSqrt(sample_size))

\* range(0, dim, step)
SampleAxis(dim, step) == {v \in 0..(dim - 1) : v % step = 0}

\* 1000 * (0.299 r + 0.587 g + 0.114 b); brightness = Luminance / 255000
Luminance(color) == 299 * Red(color) + 587 * Green(color) + 114 * Blue(color)

\* the decision by contrast alone
Classify_contrast(lum_range, unique_colors, estimated_palette_size) ==
  IF 10 * lum_range > 6 * 255000 THEN "light"
  ELSE IF 100 * lum_range < 25 * 255000 THEN "heavy"
  ELSE "medium"

\* the decision without its third stage
Classify_no_count(lum_range, unique_colors, estimated_palette_size) ==
  IF 10 * lum_range > 6 * 255000
  THEN IF 100 * unique_colors < 15 * estimated_palette_size THEN "heavy" ELSE "light"
  ELSE IF 100 * lum_range < 25 * 255000
  THEN IF 10 * unique_colors > 4 * estimated_palette_size THEN "light" ELSE "heavy"
  ELSE IF 100 * unique_colors < 15 * estimated_palette_size THEN "heavy"
  ELSE IF 10 * unique_colors > 4 * estimated_palette_size THEN "light"
  ELSE "medium"

\* the three-stage decision of lines 210-235 on the sample statistics:
\* lum_range = 255000 * brightness_range, color_usage_ratio =
\* unique_colors / estimated_palette_size
Classify(lum_range, unique_colors, estimated_palette_size) ==
  LET by_contrast == IF 10 * lum_range > 6 * 255000 THEN "light"
                     ELSE IF 100 * lum_range < 25 * 255000 THEN "heavy"
                     ELSE "medium"
      ratio_known == estimated_palette_size > 0
      by_usage == IF ratio_known /\ 100 * unique_colors < 15 * estimated_palette_size
                     /\ by_contrast # "heavy" THEN "heavy"
                  ELSE IF ~ratio_known /\ by_contrast # "heavy" THEN "heavy"
                  ELSE IF ratio_known /\ 10 * unique_colors > 4 * estimated_palette_size
                     /\ by_contrast # "light" THEN "light"
                  ELSE by_contrast
  IN  IF unique_colors < 20 THEN "heavy"
      ELSE IF unique_colors > 100 THEN "light"
      ELSE by_usage

\* the analysis going on to classify when no sample resolved to a colour
analyze_color_range_proceed(bitmap, palette, sample_size, raises) ==
  IF palette = NoShader THEN "medium"
  ELSE IF ~ValidIndex(palette, 0) THEN "medium"
  ELSE IF raises THEN "medium"
  ELSE LET step_x == SampleStep(bitmap.width, sample_size)
           step_y == SampleStep(bitmap.height, sample_size)
           samples == SampleAxis(bitmap.width, step_x) \X SampleAxis(bitmap.height, step_y)
           palette_colors_found == {bitmap.pixels[xy] : xy \in samples}
           brightness_values ==
             {Luminance(PaletteAt(palette, i)) :
                i \in {j \in palette_colors_found : ValidIndex(palette, j)}}
           lum_range == IF brightness_values = {} THEN 0
                        ELSE SetMax(brightness_values) - SetMin(brightness_values)
           unique_colors == Cardinality(palette_colors_found)
           max_palette_index == SetMax(palette_colors_found)
           estimated_palette_size == Min(256, max_palette_index + 50)
       IN  Classify(lum_range, unique_colors, estimated_palette_size)

\* raises: a statement of the try body raises and the handler of line 240
\* returns 'medium'
analyze_color_range(bitmap, palette, sample_size, raises) ==
  IF palette = NoShader THEN "medium"
  ELSE IF ~ValidIndex(palette, 0) THEN "medium"
  ELSE IF raises THEN "medium"
  ELSE LET step_x == SampleStep(bitmap.width, sample_size)
           step_y == SampleStep(bitmap.height, sample_size)
           samples == SampleAxis(bitmap.width, step_x) \X SampleAxis(bitmap.height, step_y)
           palette_colors_found == {bitmap.pixels[xy] : xy \in samples}
           brightness_values ==
             {Luminance(PaletteAt(palette, i)) :
                i \in {j \in palette_colors_found : ValidIndex(palette, j)}}
       IN  IF brightness_values = {} THEN "medium"
           ELSE LET lum_range == SetMax(brightness_values) - SetMin(brightness_values)
                    unique_colors == Cardinality(palette_colors_found)
                    max_palette_index == SetMax(palette_colors_found)
                    estimated_palette_size == Min(256, max_palette_index + 50)
                IN  Classify(lum_range, unique_colors, estimated_palette_size)

\* ------------------------------------------------------------------ state
VARIABLES
  pc,                      \* position of run(): "start", "top", "dither", "check", "stopped"
  dithering,               \* the module setting ENABLE_DITHERING
  clock,                   \* time.monotonic() - last_image_time, saturating at CYCLE_TIME
  current_time,            \* the local of run(), on the scale of clock
  last_image_time,         \* truth value of self.last_image_time
  current_image_index,
  requested_url,           \* the url of the latest requests.get
  root_group,              \* self.display.root_group
  current_group,
  current_bitmap_data,     \* <<>> for None, else <<bitmap, palette>>
  current_dither_pattern,
  dither_frame,
  pixel_shader,            \* pixel_shader of the TileGrid of current_group
  event,                   \* what the latest step of run() did or printed
  cycle_end,               \* the display state when the latest change_image returned
  fn_args,                 \* input of a function applied on its own
  fn_result                \* its result

loopVars ==
  <<pc, dithering, clock, current_time, last_image_time, current_image_index,
    requested_url, root_group, current_group, current_bitmap_data,
    current_dither_pattern, dither_frame, pixel_shader, event, cycle_end>>

fnVars == <<fn_args, fn_result>>

vars == <<loopVars, fnVars>>

NoData == <<>>

NoArgs == [fn |-> "None"]

DisplayState ==
  [root_group |-> root_group, current_bitmap_data |-> current_bitmap_data,
   current_dither_pattern |-> current_dither_pattern, dither_frame |-> dither_frame]

\* PhotoDisplay.__init__: show_test_pattern either installs the label group
\* or fails before doing so
InitLoop ==
  /\ pc = "start"
  /\ dithering = ENABLE_DITHERING
  /\ clock = 0
  /\ current_time = 0
  /\ last_image_time = FALSE
  /\ current_image_index = 0
  /\ requested_url = None
  /\ \E group \in {None, "test"} : root_group = group /\ current_group = group
  /\ current_bitmap_data = NoData
  /\ current_dither_pattern = "medium"
  /\ dither_frame = 0
  /\ pixel_shader = NoShader
  /\ event = "init"
  /\ cycle_end = [root_group |-> root_group, current_bitmap_data |-> NoData,
                  current_dither_pattern |-> "medium", dither_frame |-> 0]

Init == InitLoop /\ fn_args = NoArgs /\ fn_result = NoShader

\* ---------------------------------------------------------- collaborators
\* One answer of the outside world to one change_image: what requests.get
\* does, what the response holds, and which later call raises.
\* the artifacts the image server holds
Served == {"bw", "ramp", "rgb", "corrupt"}

\* A field that the run never reads (the status of a request that raised,
\* the outcome of a call that is not reached) is held at one value.
Environments ==
  {env \in [get_raises : BOOLEAN, status_code : {200, 404}, content : Served,
            load_raises : BOOLEAN, analysis_raises : BOOLEAN, display_raises : BOOLEAN] :
     LET loaded == ~env.get_raises /\ env.status_code = 200 /\ ~env.load_raises
                     /\ env.content \notin CorruptImages
     IN  /\ env.get_raises => env.status_code = 404
         /\ env.status_code = 404 => env.content = "corrupt" /\ ~env.load_raises
         /\ env.content \in CorruptImages => ~env.load_raises
         /\ ~loaded => ~env.analysis_raises /\ ~env.display_raises
         /\ env.content \notin IndexedImages => ~env.analysis_raises}

\* ------------------------------------------------------------- adoption
FrameAfterDisplay_keep(frame) == frame

FrameAfterDisplay(frame) == 0

\* the adoption keeping the stored bitmap and palette of the image before
display_image_from_data_stale(image_data, env) ==
  IF env.load_raises \/ image_data \in CorruptImages
  THEN /\ event' = "load_error"
       /\ UNCHANGED <<root_group, current_group, current_bitmap_data,
                      current_dither_pattern, dither_frame, pixel_shader>>
  ELSE LET bitmap == image_data
           palette == ShaderOf(image_data)
           is_palette == palette.type = "Palette"
       IN  /\ IF is_palette /\ dithering
              THEN /\ current_dither_pattern' =
                        analyze_color_range(BitmapOf(bitmap), palette, 100, env.analysis_raises)
                   /\ current_bitmap_data' =
                        IF current_bitmap_data = NoData THEN <<bitmap, palette>>
                        ELSE current_bitmap_data
              ELSE /\ current_bitmap_data' = NoData
                   /\ current_dither_pattern' = "medium"
           /\ IF env.display_raises
              THEN /\ event' = "display_error"
                   /\ UNCHANGED <<root_group, current_group, dither_frame, pixel_shader>>
              ELSE /\ root_group' = bitmap
                   /\ current_group' = bitmap
                   /\ pixel_shader' = palette
                   /\ dither_frame' = FrameAfterDisplay(dither_frame)
                   /\ event' = "displayed"

display_image_from_data(image_data, env) ==
  IF env.load_raises \/ image_data \in CorruptImages
  THEN \* adafruit_imageload.load raises: handler of line 451
       /\ event' = "load_error"
       /\ UNCHANGED <<root_group, current_group, current_bitmap_data,
                      current_dither_pattern, dither_frame, pixel_shader>>
  ELSE LET bitmap == image_data
           palette == ShaderOf(image_data)
           is_palette == palette.type = "Palette"
       IN  /\ IF is_palette /\ dithering
              THEN /\ current_dither_pattern' =
                        analyze_color_range(BitmapOf(bitmap), palette, 100, env.analysis_raises)
                   /\ current_bitmap_data' = <<bitmap, palette>>
              ELSE /\ current_bitmap_data' = NoData
                   /\ current_dither_pattern' = "medium"
           /\ IF env.display_raises
              THEN \* TileGrid, Group, append or the root_group setter raises
                   /\ event' = "display_error"
                   /\ UNCHANGED <<root_group, current_group, dither_frame, pixel_shader>>
              ELSE /\ root_group' = bitmap
                   /\ current_group' = bitmap
                   /\ pixel_shader' = palette
                   /\ dither_frame' = FrameAfterDisplay(dither_frame)
                   /\ event' = "displayed"

download_and_display_image_clear(url, env) ==
  /\ requested_url' = url
  /\ IF env.get_raises \/ env.status_code # 200
     THEN /\ event' = IF env.get_raises THEN "download_error" ELSE "download_failed"
          /\ current_bitmap_data' = NoData
          /\ current_dither_pattern' = "medium"
          /\ UNCHANGED <<root_group, current_group, dither_frame, pixel_shader>>
     ELSE display_image_from_data(env.content, env)

download_and_display_image(url, env) ==
  /\ requested_url' = url
  /\ IF env.get_raises
     THEN /\ event' = "download_error"
          /\ UNCHANGED <<root_group, current_group, current_bitmap_data,
                         current_dither_pattern, dither_frame, pixel_shader>>
     ELSE IF env.status_code = 200
     THEN display_image_from_data(env.content, env)
     ELSE /\ event' = "download_failed"
          /\ UNCHANGED <<root_group, current_group, current_bitmap_data,
                         current_dither_pattern, dither_frame, pixel_shader>>

NextImageIndex_short(index) == (index + 1) % (Len(IMAGE_URLS) - 1)

NextImageIndex(index) == (index + 1) % Len(IMAGE_URLS)

change_image(env) ==
  /\ download_and_display_image(IMAGE_URLS[current_image_index + 1], env)
  /\ current_image_index' = NextImageIndex(current_image_index)
  /\ last_image_time' = TRUE
  /\ clock' = 0
  /\ cycle_end' = DisplayState'

\* ------------------------------------------------------------ dither tick
\* len(self.current_group): the label group and an image group hold one item
GroupLen(group) == IF group = None THEN 0 ELSE 1

\* hasattr(self.current_group[0], 'pixel_shader'): a TileGrid has it, the
\* label of the test pattern does not
HasPixelShader(group) == group \notin {None, "test"}

\* truth value of a palette object (its length)
Truthy(shader) == shader.type = "ColorConverter" \/ Len(shader.colors) > 0

\* what the tick does with an exception of its try body (line 553): print
PcAfterTickError_raise == "stopped"

PcAfterTickError == "check"

\* palette_raises: the try body of create_dithered_palette raises;
\* install_raises: a statement of the tick's own try body raises once the
\* counter is advanced
TickOutcomes == {"ok", "palette_raises", "install_raises"}

OriginalPalette_installed(data, shader) ==
  IF shader.type = "Palette" THEN shader ELSE data[2]

\* line 540: the tick starts from the palette stored at adoption, not from
\* the pixel_shader the sprite has now
OriginalPalette(data, shader) == data[2]

DataAfterTick_store(data, dithered_palette) == <<data[1], dithered_palette>>

\* line 540 reads self.current_bitmap_data and nothing assigns it
DataAfterTick(data, dithered_palette) == data

update_dither_frame(outcome) ==
  IF current_bitmap_data = NoData \/ current_group = None
  THEN /\ event' = "tick_skipped"
       /\ pc' = "check"
       /\ UNCHANGED <<dither_frame, pixel_shader, current_bitmap_data>>
  ELSE LET frame == NextFrame(dither_frame)
           brightness_offset == BrightnessOffset(current_dither_pattern, frame)
           original_palette == OriginalPalette(current_bitmap_data, pixel_shader)
           dithered_palette ==
             create_dithered_palette(original_palette, brightness_offset,
                                     current_dither_pattern, outcome = "palette_raises")
       IN  /\ dither_frame' = frame
           /\ current_bitmap_data' = DataAfterTick(current_bitmap_data, dithered_palette)
           /\ IF outcome = "install_raises"
              THEN /\ event' = "tick_error"
                   /\ pc' = PcAfterTickError
                   /\ UNCHANGED pixel_shader
              ELSE /\ event' = IF outcome = "ok" THEN "tick" ELSE "tick_fallback"
                   /\ pc' = "check"
                   /\ IF original_palette # NoShader /\ Truthy(dithered_palette)
                         /\ GroupLen(current_group) > 0 /\ HasPixelShader(current_group)
                      THEN pixel_shader' = dithered_palette
                      ELSE UNCHANGED pixel_shader

\* --------------------------------------------------------------- run()
\* line 581: the first image, shown before the loop
StartupChangeImage ==
  /\ pc = "start"
  /\ \E env \in Environments : change_image(env)
  /\ pc' = "top"
  /\ UNCHANGED <<dithering, current_time, fnVars>>

\* line 585
ReadTime ==
  /\ pc = "top"
  /\ current_time' = clock
  /\ pc' = "dither"
  /\ event' = "time_read"
  /\ UNCHANGED <<dithering, clock, last_image_time, current_image_index, requested_url,
                 root_group, current_group, current_bitmap_data, current_dither_pattern,
                 dither_frame, pixel_shader, cycle_end, fnVars>>

\* the iteration going on to line 592 without the call of line 589
DitherTick_off ==
  /\ pc = "dither"
  /\ pc' = "check"
  /\ UNCHANGED <<dithering, clock, current_time, last_image_time, current_image_index,
                 requested_url, root_group, current_group, current_bitmap_data,
                 current_dither_pattern, dither_frame, pixel_shader, event, cycle_end,
                 fnVars>>

\* lines 588-589
DitherTick ==
  /\ pc = "dither"
  /\ IF dithering
     THEN \E outcome \in TickOutcomes : update_dither_frame(outcome)
     ELSE pc' = "check" /\ UNCHANGED <<dither_frame, pixel_shader, event, current_bitmap_data>>
  /\ UNCHANGED <<dithering, clock, current_time, last_image_time, current_image_index,
                 requested_url, root_group, current_group, current_dither_pattern,
                 cycle_end, fnVars>>

\* the test of line 592 without the comparison of the elapsed time
ImageDue_always == last_image_time

ImageDue == last_image_time /\ current_time >= CYCLE_TIME

\* lines 592-593, the time has come
ImageChange ==
  /\ pc = "check"
  /\ ImageDue
  /\ \E env \in Environments : change_image(env)
  /\ pc' = "top"
  /\ current_time' = 0
  /\ UNCHANGED <<dithering, fnVars>>

\* line 592, not yet
ImageKept ==
  /\ pc = "check"
  /\ ~ImageDue
  /\ pc' = "top"
  /\ current_time' = 0
  /\ event' = "not_due"
  /\ UNCHANGED <<dithering, clock, last_image_time, current_image_index, requested_url,
                 root_group, current_group, current_bitmap_data, current_dither_pattern,
                 dither_frame, pixel_shader, cycle_end, fnVars>>

\* time.monotonic() moves on while the loop runs
TimePasses ==
  /\ pc \in {"top", "dither", "check"}
  /\ clock < CYCLE_TIME
  /\ clock' = Min(CYCLE_TIME, clock + TimeStep)
  /\ UNCHANGED <<pc, dithering, current_time, last_image_time, current_image_index,
                 requested_url, root_group, current_group, current_bitmap_data,
                 current_dither_pattern, dither_frame, pixel_shader, event, cycle_end,
                 fnVars>>

\* lines 597-599: the user stops the slideshow
KeyboardInterrupt ==
  /\ pc \in {"start", "top", "dither", "check"}
  /\ pc' = "stopped"
  /\ event' = "interrupt"
  /\ UNCHANGED <<dithering, clock, current_time, last_image_time, current_image_index,
                 requested_url, root_group, current_group, current_bitmap_data,
                 current_dither_pattern, dither_frame, pixel_shader, cycle_end, fnVars>>

Next ==
  \/ StartupChangeImage
  \/ ReadTime
  \/ DitherTick
  \/ ImageChange
  \/ ImageKept
  \/ TimePasses
  \/ KeyboardInterrupt

Spec == Init /\ [][Next]_vars

\* ------------------------------------------- palette derivation on its own
\* colours with channels at and next to both ends of 0..255
SampleColors ==
  {Pack(0, 0, 0), Pack(255, 255, 255), Pack(2, 128, 253), Pack(12, 243, 3),
   Pack(11, 244, 252), Pack(255, 0, 6)}

PaletteInputs ==
  UNION {[1..n -> SampleColors] : n \in 2..MaxPalLen}

DitherArgs ==
  [fn : {"create_dithered_palette"}, colors : PaletteInputs, pattern : Patterns,
   brightness_offset : {-1, 1}, raises : BOOLEAN]

InitDither ==
  /\ pc = "start"
  /\ dithering = ENABLE_DITHERING
  /\ clock = 0
  /\ current_time = 0
  /\ last_image_time = FALSE
  /\ current_image_index = 0
  /\ requested_url = None
  /\ root_group = None
  /\ current_group = None
  /\ current_bitmap_data = NoData
  /\ current_dither_pattern \in Patterns
  /\ dither_frame = 0
  /\ pixel_shader = NoShader
  /\ event = "init"
  /\ cycle_end = [root_group |-> None, current_bitmap_data |-> NoData,
                  current_dither_pattern |-> "medium", dither_frame |-> 0]
  /\ fn_args \in {a \in DitherArgs : a.pattern = current_dither_pattern}
  /\ fn_result = NoShader

\* one call of create_dithered_palette with self.current_dither_pattern set
ApplyDither ==
  /\ fn_args.fn = "create_dithered_palette"
  /\ fn_result = NoShader
  /\ fn_result' = create_dithered_palette(Palette(fn_args.colors), fn_args.brightness_offset,
                                          current_dither_pattern, fn_args.raises)
  /\ UNCHANGED <<loopVars, fn_args>>

NextDither == ApplyDither

SpecDither == InitDither /\ [][NextDither]_vars

\* ------------------------------------------- colour analysis on its own
\* side of the largest bitmap handed to analyze_color_range; up to 19 the
\* sampling step is 1 and every pixel is sampled
MaxSide == 11

\* run() and the display at rest while a function is applied on its own
LoopIdle ==
  /\ pc = "start"
  /\ dithering = ENABLE_DITHERING
  /\ clock = 0
  /\ current_time = 0
  /\ last_image_time = FALSE
  /\ current_image_index = 0
  /\ requested_url = None
  /\ root_group = None
  /\ current_group = None
  /\ current_bitmap_data = NoData
  /\ current_dither_pattern = "medium"
  /\ dither_frame = 0
  /\ pixel_shader = NoShader
  /\ event = "init"
  /\ cycle_end = [root_group |-> None, current_bitmap_data |-> NoData,
                  current_dither_pattern |-> "medium", dither_frame |-> 0]

\* <<width, height>> of the bitmaps analysed
AnalyzeSizes == {<<1, 1>>, <<2, 1>>, <<MaxSide, MaxSide>>}

\* numbers of distinct indices a bitmap uses, on both sides of 20 and 100
DistinctCounts == {1, 2, 10, 19, 20, 40, 100, 101}

\* <<darkest, brightest>> grey level of a palette: brightness ranges on both
\* sides of 0.25 (63.75 levels) and of 0.6 (153 levels); the level 153 itself,
\* where the rounding of the float decides, is left out
GreyPairs ==
  {<<0, 0>>, <<0, 63>>, <<0, 64>>, <<0, 152>>, <<0, 154>>, <<0, 255>>, <<100, 254>>}

\* A bitmap uses the indices first, first + 1, ... and one top index, which is
\* the next one (dense) or a far one; the palette has pal_len entries, all of
\* the darkest grey but the top index, which has the brightest.
AnalyzeArgs ==
  {a \in [fn : {"analyze_color_range"}, size : AnalyzeSizes, distinct : DistinctCounts,
          first : {0, 5}, dense : BOOLEAN, far : {150, 255}, greys : GreyPairs,
          has_palette : BOOLEAN, pal_len : {0, 1, 2, 20, 256}, raises : BOOLEAN] :
     /\ a.distinct <= a.size[1] * a.size[2]
     /\ a.dense => a.far = 150
     /\ ~a.has_palette => a.pal_len = 0}

TopIndex(a) == IF a.dense THEN a.first + a.distinct - 1 ELSE a.far

BitmapFrom(a) ==
  [width |-> a.size[1], height |-> a.size[2],
   pixels |-> [xy \in (0..(a.size[1] - 1)) \X (0..(a.size[2] - 1)) |->
                 LET k == xy[1] + a.size[1] * xy[2]
                 IN  IF k < a.distinct - 1 THEN a.first + k ELSE TopIndex(a)]]

PaletteFrom(a) ==
  IF ~a.has_palette THEN NoShader
  ELSE Palette([i \in 1..a.pal_len |->
                  IF i - 1 = TopIndex(a)
                  THEN Pack(a.greys[2], a.greys[2], a.greys[2])
                  ELSE Pack(a.greys[1], a.greys[1], a.greys[1])])

InitAnalyze == LoopIdle /\ fn_args \in AnalyzeArgs /\ fn_result = None

\* one call of analyze_color_range(bitmap, palette)
ApplyAnalyze ==
  /\ fn_args.fn = "analyze_color_range"
  /\ fn_result = None
  /\ fn_result' = analyze_color_range(BitmapFrom(fn_args), PaletteFrom(fn_args), 100,
                                      fn_args.raises)
  /\ UNCHANGED <<loopVars, fn_args>>

NextAnalyze == ApplyAnalyze

SpecAnalyze == InitAnalyze /\ [][NextAnalyze]_vars

\* ------------------------------------------- ticks on one adopted image
\* number of ticks followed after an adoption
MaxTicks == 5

\* the state the change_image of startup leaves when it adopts an indexed
\* image; fn_result will list what each tick after it did
InitTicks ==
  /\ pc = "top"
  /\ dithering = ENABLE_DITHERING
  /\ clock = 0
  /\ current_time = 0
  /\ last_image_time = TRUE
  /\ current_image_index = 1
  /\ requested_url = IMAGE_URLS[1]
  /\ root_group \in IndexedImages
  /\ current_group = root_group
  /\ current_bitmap_data = <<root_group, ShaderOf(root_group)>>
  /\ \E raises \in BOOLEAN :
       current_dither_pattern =
         analyze_color_range(BitmapOf(root_group), ShaderOf(root_group), 100, raises)
  /\ dither_frame = 0
  /\ pixel_shader = ShaderOf(root_group)
  /\ event = "displayed"
  /\ cycle_end = DisplayState
  /\ fn_args = [fn |-> "ticks"]
  /\ fn_result = <<>>

\* +1 or -1 when the installed palette is the base palette moved up or down
\* by the magnitude of the profile, 0 when it is neither
InstalledSign(shader, base, pattern) ==
  LET moved(sign) ==
        /\ shader.type = "Palette"
        /\ Len(shader.colors) = Len(base.colors)
        /\ \A i \in 1..Len(base.colors) :
             shader.colors[i] = DitherColor(base.colors[i], sign * OffsetMagnitude(pattern))
  IN  IF moved(1) THEN 1 ELSE IF moved(-1) THEN -1 ELSE 0

\* lines 588-589, with the outcome of the tick put on the list: the counter
\* it left, what it printed, and the sign of the offset of the palette it
\* installed (0 when it installed none or the base palette itself)
TickObserved ==
  /\ pc = "dither"
  /\ Len(fn_result) < MaxTicks
  /\ \E outcome \in TickOutcomes : update_dither_frame(outcome)
  /\ fn_result' =
       Append(fn_result,
              [frame |-> dither_frame', event |-> event',
               sign |-> IF event' \in {"tick", "tick_fallback"}
                        THEN InstalledSign(pixel_shader', current_bitmap_data[2],
                                           current_dither_pattern)
                        ELSE 0])
  /\ UNCHANGED <<dithering, clock, current_time, last_image_time, current_image_index,
                 requested_url, root_group, current_group, current_dither_pattern,
                 cycle_end, fn_args>>

\* the loop while the image is not due: time read, tick, check, and again
NextTicks ==
  \/ ReadTime
  \/ TickObserved
  \/ ImageKept

SpecTicks == InitTicks /\ [][NextTicks]_vars

\* ------------------------------------- the converter (src/bmp_convert.py)
\* An image is its size <<width, height>>; the converter never looks at a
\* pixel itself, Pillow does.  A call either returns or raises:
Returned(size, region) == [status |-> "ok", size |-> size, region |-> region]

Raised(error) == [status |-> "raised", error |-> error]

NotCalled == [status |-> "none"]

\* int(a * (num / den)) and int(a / (den / num)) on floats: the quotient
\* a * num / den cut to an integer; float_low says the float landed just
\* under an exact integer quotient (49 * (1 / 49) is 0.9999999999999999)
TruncQuotient(a, num, den, float_low) ==
  LET q == (a * num) \div den
  IN  IF float_low /\ (a * num) % den = 0 /\ q > 0 THEN q - 1 ELSE q

\* Image.crop(box): the region of the box, whatever its size
Crop(box) == <<box[3] - box[1], box[4] - box[2]>>

\* resize to the size of the crop in place of the target size
Resize_region(region, target_size) ==
  IF target_size[1] < 1 \/ target_size[2] < 1 THEN Raised("ValueError")
  ELSE Returned(region, region)

\* Image.resize(size, LANCZOS): an image of the size asked for; Pillow
\* refuses a size that is not positive
Resize(region, target_size) ==
  IF target_size[1] < 1 \/ target_size[2] < 1 THEN Raised("ValueError")
  ELSE Returned(target_size, region)

\* lines 47-58: the box handed to Image.crop, the whole image when the two
\* ratios are equal and nothing is cropped
crop_box(image, target_size, float_low) ==
  IF image[1] * target_size[2] > target_size[1] * image[2]
  THEN \* img_ratio > target_ratio: crop width
       LET new_height == image[2]
           new_width == TruncQuotient(new_height, target_size[1], target_size[2], float_low)
           left == (image[1] - new_width) \div 2
       IN  <<left, 0, left + new_width, new_height>>
  ELSE IF image[1] * target_size[2] < target_size[1] * image[2]
  THEN \* img_ratio < target_ratio: crop height
       LET new_width == image[1]
           new_height == TruncQuotient(new_width, target_size[2], target_size[1], float_low)
           top == (image[2] - new_height) \div 2
       IN  <<0, top, new_width, top + new_height>>
  ELSE <<0, 0, image[1], image[2]>>

smart_crop_resize(image, target_size, float_low) ==
  IF image[2] = 0 \/ target_size[2] = 0 THEN Raised("ZeroDivisionError")
  ELSE Resize(Crop(crop_box(image, target_size, float_low)), target_size)

\* largest width or height of a source image or a canvas
MaxDim == 6

CropArgs ==
  [fn : {"smart_crop_resize"}, image : (0..MaxDim) \X (0..MaxDim),
   target_size : (0..MaxDim) \X (0..MaxDim), float_low : BOOLEAN]

InitCrop == LoopIdle /\ fn_args \in CropArgs /\ fn_result = NotCalled

\* one call of smart_crop_resize(image, target_size)
ApplyCrop ==
  /\ fn_args.fn = "smart_crop_resize"
  /\ fn_result = NotCalled
  /\ fn_result' = smart_crop_resize(fn_args.image, fn_args.target_size, fn_args.float_low)
  /\ UNCHANGED <<loopVars, fn_args>>

NextCrop == ApplyCrop

SpecCrop == InitCrop /\ [][NextCrop]_vars

\* ------------------------------------------------- a run of the converter
\* A run is fn_args: how the converter is entered ("main" for the command
\* line, "direct" for LEDMatrixConverter(...).convert_images(...)), the
\* options, and the files of the input directory.  brightness and contrast
\* are in hundredths.  fn_result is the run so far: where it is, the fields of
\* the converter object, and the results of the batch loop.
\* most files in the input directory
MaxBatch == 2

\* a source file: the size of the image in it, whether Pillow can read it,
\* and whether writing its BMP raises
Sources ==
  {[size |-> <<4, 2>>, readable |-> TRUE, save_raises |-> FALSE],
   [size |-> <<2, 4>>, readable |-> TRUE, save_raises |-> TRUE],
   [size |-> <<3, 0>>, readable |-> TRUE, save_raises |-> FALSE],
   [size |-> <<1, 1>>, readable |-> FALSE, save_raises |-> FALSE]}

Batches == UNION {[1..n -> Sources] : n \in 0..MaxBatch}

ConvertArgs ==
  [fn : {"convert_images"}, entry : {"main", "direct"},
   colors : {1, 2, 256, 257}, brightness : {9, 10, 100, 101},
   contrast : {49, 50, 200, 201}, size : {<<4, 4>>, <<4, 2>>, <<0, 4>>},
   files : Batches]

ConverterIdle ==
  [status |-> "none", matrix_size |-> <<0, 0>>, brightness_factor |-> 0,
   contrast_factor |-> 0, palette_colors |-> 0, success_count |-> 0, results |-> <<>>]

InitConvert == LoopIdle /\ fn_args \in ConvertArgs /\ fn_result = ConverterIdle

\* lines 253-263: the checks main makes before it builds the converter
ArgsAccepted(args) ==
  /\ ~(args.colors < 2 \/ args.colors > 256)
  /\ 10 <= args.brightness /\ args.brightness <= 100
  /\ 50 <= args.contrast /\ args.contrast <= 200

\* LEDMatrixConverter.__init__ and the call of convert_images
Converting(args) ==
  [status |-> "converting", matrix_size |-> args.size,
   brightness_factor |-> args.brightness, contrast_factor |-> args.contrast,
   palette_colors |-> args.colors, success_count |-> 0, results |-> <<>>]

\* main() up to convert_images, or the direct construction of the converter
Start ==
  /\ fn_args.fn = "convert_images"
  /\ fn_result.status = "none"
  /\ fn_result' =
       IF fn_args.entry = "main" /\ ~ArgsAccepted(fn_args)
       THEN [ConverterIdle EXCEPT !.status = "exited"]
       ELSE Converting(fn_args)
  /\ UNCHANGED <<loopVars, fn_args>>

\* Image.quantize(colors=...) of save_palette_bmp refuses colors outside 1..256
QuantizeRaises(colors) == colors < 1 \/ colors > 256

\* process_single_image: the size of the BMP written, or the exception its
\* handler caught; Pillow cannot load an image with no pixels
process_single_image(source, converter) ==
  IF ~source.readable \/ source.size[1] = 0 \/ source.size[2] = 0
  THEN [ok |-> FALSE, size |-> <<0, 0>>]
  ELSE LET image == smart_crop_resize(source.size, converter.matrix_size, FALSE)
       IN  IF image.status = "raised" \/ QuantizeRaises(converter.palette_colors)
              \/ source.save_raises
           THEN [ok |-> FALSE, size |-> <<0, 0>>]
           ELSE [ok |-> TRUE, size |-> image.size]

\* the count taking every file
CountAfter_all(success_count, ok) == success_count + 1

\* lines 212-213
CountAfter(success_count, ok) == IF ok THEN success_count + 1 ELSE success_count

\* lines 210-215: one round of the batch loop
ConvertNext ==
  /\ fn_result.status = "converting"
  /\ Len(fn_result.results) < Len(fn_args.files)
  /\ LET img_file == fn_args.files[Len(fn_result.results) + 1]
         result == process_single_image(img_file, fn_result)
     IN  fn_result' =
           [fn_result EXCEPT !.results = Append(@, result),
                             !.success_count = CountAfter(@, result.ok)]
  /\ UNCHANGED <<loopVars, fn_args>>

\* lines 197-199 and 218-219: nothing to convert, or the report of the batch
ConvertDone ==
  /\ fn_result.status = "converting"
  /\ Len(fn_result.results) = Len(fn_args.files)
  /\ fn_result' = [fn_result EXCEPT !.status = "done"]
  /\ UNCHANGED <<loopVars, fn_args>>

NextConvert ==
  \/ Start
  \/ ConvertNext
  \/ ConvertDone

SpecConvert == InitConvert /\ [][NextConvert]_vars

\* ------------------------------- the slideshow on a server with a stray file
\* the server answers every request with one of four files
DecodeServed == {"bw", "stray", "wide", "corrupt"}

DecodeEnvironments ==
  {[get_raises |-> FALSE, status_code |-> 200, content |-> content,
    load_raises |-> FALSE, analysis_raises |-> FALSE, display_raises |-> FALSE] :
     content \in DecodeServed}

InitDecode == InitLoop /\ fn_args = [fn |-> "decode"] /\ fn_result = NoShader

\* line 581
StartupDecode ==
  /\ pc = "start"
  /\ \E env \in DecodeEnvironments : change_image(env)
  /\ pc' = "top"
  /\ UNCHANGED <<dithering, current_time, fnVars>>

\* lines 592-593
ChangeDecode ==
  /\ pc = "check"
  /\ ImageDue
  /\ \E env \in DecodeEnvironments : change_image(env)
  /\ pc' = "top"
  /\ current_time' = 0
  /\ UNCHANGED <<dithering, fnVars>>

NextDecode ==
  \/ StartupDecode
  \/ ReadTime
  \/ DitherTick
  \/ ChangeDecode
  \/ ImageKept
  \/ TimePasses

SpecDecode == InitDecode /\ [][NextDecode]_vars

\* ------------------------------------------- the sampling grid on its own
\* largest width or height of an analysed bitmap
MaxSampleDim == 64

SampleArgs ==
  [fn : {"sample_grid"}, width : 1..MaxSampleDim, height : 1..MaxSampleDim]

InitSample == LoopIdle /\ fn_args \in SampleArgs /\ fn_result = NotCalled

\* lines 145-161 with the default sample_size: the two steps and the
\* coordinates the two loops visit
ApplySample ==
  /\ fn_args.fn = "sample_grid"
  /\ fn_result = NotCalled
  /\ LET step_x == SampleStep(fn_args.width, 100)
         step_y == SampleStep(fn_args.height, 100)
     IN  fn_result' = [status |-> "sampled", step_x |-> step_x, step_y |-> step_y,
                       xs |-> SampleAxis(fn_args.width, step_x),
                       ys |-> SampleAxis(fn_args.height, step_y)]
  /\ UNCHANGED <<loopVars, fn_args>>

NextSample == ApplySample

SpecSample == InitSample /\ [][NextSample]_vars

\* ----------------------------- the loop with an error leaving change_image
\* line 602: time.sleep(1)
RETRY_DELAY == 1

\* the loop without the handler of line 600: the exception leaves run()
PcAfterLoopError_raise == "crashed"

\* lines 600-602: print, then sleep
PcAfterLoopError == "backoff"

\* fn_result holds the seconds of the latest time.sleep
InitBackoff == InitLoop /\ fn_args = [fn |-> "backoff"] /\ fn_result = 0

\* what download_and_display_image has done when one of its handlers
\* (lines 369-372, 451-454) raises while reporting the exception it caught:
\* the exception leaves change_image before lines 567 and 570
change_image_raises(env) ==
  /\ download_and_display_image(IMAGE_URLS[current_image_index + 1], env)
  /\ event' \in {"download_error", "load_error", "display_error"}
  /\ UNCHANGED <<current_image_index, last_image_time, clock, cycle_end>>

\* line 581 is outside the try of the loop
StartupRaises ==
  /\ pc = "start"
  /\ \E env \in Environments : change_image_raises(env)
  /\ pc' = "crashed"
  /\ UNCHANGED <<dithering, current_time, fnVars>>

\* line 593 raises: handler of line 600
ImageChangeRaises ==
  /\ pc = "check"
  /\ ImageDue
  /\ \E env \in Environments : change_image_raises(env)
  /\ pc' = PcAfterLoopError
  /\ current_time' = 0
  /\ UNCHANGED <<dithering, fnVars>>

\* line 602, then the next iteration
Backoff ==
  /\ pc = "backoff"
  /\ clock' = Min(CYCLE_TIME, clock + RETRY_DELAY)
  /\ fn_result' = RETRY_DELAY
  /\ pc' = "top"
  /\ UNCHANGED <<dithering, current_time, last_image_time, current_image_index,
                 requested_url, root_group, current_group, current_bitmap_data,
                 current_dither_pattern, dither_frame, pixel_shader, event, cycle_end,
                 fn_args>>

NextBackoff ==
  \/ StartupChangeImage
  \/ StartupRaises
  \/ ReadTime
  \/ DitherTick
  \/ ImageChange
  \/ ImageChangeRaises
  \/ Backoff
  \/ ImageKept
  \/ TimePasses

SpecBackoff == InitBackoff /\ [][NextBackoff]_vars

\* --------------------------------------- the loop left to run for ever
\* the answers of a network that may fail every time: the request raises,
\* the server answers 404, or it serves an image
LiveEnvironments ==
  {env \in Environments :
     /\ env.content \in {"bw", "corrupt"}
     /\ ~env.load_raises /\ ~env.analysis_raises /\ ~env.display_raises}

InitLive == InitLoop /\ fn_args = [fn |-> "run"] /\ fn_result = NoShader

\* line 581
StartupLive ==
  /\ pc = "start"
  /\ \E env \in LiveEnvironments : change_image(env)
  /\ pc' = "top"
  /\ UNCHANGED <<dithering, current_time, fnVars>>

\* lines 592-593
ChangeLive ==
  /\ pc = "check"
  /\ ImageDue
  /\ \E env \in LiveEnvironments : change_image(env)
  /\ pc' = "top"
  /\ current_time' = 0
  /\ UNCHANGED <<dithering, fnVars>>

NextLive ==
  \/ StartupLive
  \/ ReadTime
  \/ DitherTick
  \/ ChangeLive
  \/ ImageKept
  \/ TimePasses

\* run() is not interrupted, every statement of the loop is executed in
\* its turn (the loop never sleeps) and time.monotonic() keeps growing
SpecLive ==
  /\ InitLive
  /\ [][NextLive]_vars
  /\ WF_vars(StartupLive)
  /\ WF_vars(ReadTime)
  /\ WF_vars(DitherTick)
  /\ WF_vars(ChangeLive)
  /\ WF_vars(ImageKept)
  /\ WF_vars(TimePasses)

\* ================================================================ claims
\* the steps of run() the claims speak of
TickStep == pc = "dither" /\ pc' = "check"

TickExecuted == TickStep /\ event' \in {"tick", "tick_fallback", "tick_error"}

ChangeStep == pc \in {"start", "check"} /\ pc' = "top" /\ event' # "not_due"

AdoptionStep == ChangeStep /\ event' = "displayed"

FetchFailedStep == ChangeStep /\ event' \in {"download_error", "download_failed"}

AdoptionFailedStep == ChangeStep /\ event' \in {"load_error", "display_error"}

\* a tick at this state passes the guard of line 529
TickWillRun == pc = "dither" /\ dithering /\ current_bitmap_data # NoData /\ current_group # None

\* the channel of the specification: base + s * m, clamped to 0..255
Offset(v, s, m) ==
  IF v + s * m < 0 THEN 0 ELSE IF v + s * m > 255 THEN 255 ELSE v + s * m

\* the sign and the magnitude of the specification
CycleOf(profile) ==
  IF profile = "light" THEN <<0, 1, 0, 1>>
  ELSE IF profile = "medium" THEN <<0, 0, 0, 1>>
  ELSE <<0, 1, 1, 1>>

SignAt(profile, frame) == IF CycleOf(profile)[frame + 1] = 1 THEN 1 ELSE -1

MagnitudeOf(profile) ==
  IF profile = "light" THEN 3 ELSE IF profile = "medium" THEN 6 ELSE 12

\* entry by entry, shader is base offset by s * m
IsOffsetOf(shader, base, s, m) ==
  /\ shader.type = "Palette"
  /\ Len(shader.colors) = Len(base.colors)
  /\ \A i \in 1..Len(base.colors) :
       /\ Red(shader.colors[i]) = Offset(Red(base.colors[i]), s, m)
       /\ Green(shader.colors[i]) = Offset(Green(base.colors[i]), s, m)
       /\ Blue(shader.colors[i]) = Offset(Blue(base.colors[i]), s, m)
       /\ shader.colors[i] \in 0..16777215

\* C1: dither_frame is always one of 0, 1, 2, 3; every executed dither tick
\* advances it by exactly 1 modulo 4, and no step other than a tick or an
\* adoption changes it, however much time passes between ticks.
C1_FrameCycles ==
  /\ [](dither_frame \in 0..3)
  /\ [][/\ TickExecuted => dither_frame' = (dither_frame + 1) % 4
        /\ ~TickExecuted /\ ~AdoptionStep => dither_frame' = dither_frame]_vars

\* a tick has just wrapped the counter from 3 to 0 of a displayed image, a
\* full cycle time after its adoption
C1_Witness ==
  /\ pc = "check" /\ event = "tick" /\ dither_frame = 0
  /\ clock = CYCLE_TIME /\ HasPixelShader(current_group)

C3_ChannelsInRange ==
  fn_args.fn = "create_dithered_palette" /\ fn_result # NoShader
  => /\ Len(fn_result.colors) = Len(fn_args.colors)
     /\ \A i \in 1..Len(fn_result.colors) :
          /\ fn_result.colors[i] \in 0..16777215
          /\ fn_args.raises => fn_result.colors[i] = fn_args.colors[i]
          /\ ~fn_args.raises =>
               LET rgb == DitherChannels(fn_args.colors[i],
                            fn_args.brightness_offset * OffsetMagnitude(fn_args.pattern))
               IN  /\ \A k \in 1..3 : rgb[k] \in 0..255
                   /\ Red(fn_result.colors[i]) = rgb[1]
                   /\ Green(fn_result.colors[i]) = rgb[2]
                   /\ Blue(fn_result.colors[i]) = rgb[3]

\* a heavy positive offset has clamped 253 to 255 and 244 to 255 in one
\* palette whose other entry was left inside the range
C3_Witness ==
  /\ fn_result # NoShader /\ ~fn_args.raises
  /\ fn_args.pattern = "heavy" /\ fn_args.brightness_offset = 1
  /\ fn_args.colors[1] = Pack(2, 128, 253) /\ fn_result.colors[1] = Pack(14, 140, 255)
  /\ fn_args.colors[2] = Pack(11, 244, 252) /\ fn_result.colors[2] = Pack(23, 255, 255)

\* C4: a dither tick changes dither_frame and the installed palette only: the
\* stored bitmap and base palette, the displayed group and its bitmap, the
\* profile, the slideshow index and the image-change timestamp stay.
C4_TickFrame ==
  [][TickStep => UNCHANGED <<current_bitmap_data, root_group, current_group,
                             current_dither_pattern, current_image_index,
                             last_image_time, clock, requested_url, cycle_end>>]_vars

\* a tick has installed a derived palette on a displayed image
C4_Witness ==
  /\ pc = "check" /\ event = "tick" /\ dither_frame = 2
  /\ current_group = "bw" /\ current_bitmap_data = <<"bw", ShaderOf("bw")>>
  /\ pixel_shader # ShaderOf("bw")

\* C5: every completed adoption of an indexed image sets dither_frame to 0,
\* stores the new bitmap with its palette, and sets the profile to what
\* analyze_color_range returns for them.
C5_AdoptionResets ==
  [][AdoptionStep /\ ShaderOf(root_group').type = "Palette"
     => /\ dither_frame' = 0
        /\ current_bitmap_data' = <<root_group', ShaderOf(root_group')>>
        /\ pixel_shader' = ShaderOf(root_group')
        /\ \E raises \in BOOLEAN :
             current_dither_pattern' =
               analyze_color_range(BitmapOf(root_group'), ShaderOf(root_group'), 100, raises)]_vars

\* the second change_image has adopted "ramp" and classified it light
C5_Witness ==
  /\ pc = "top" /\ event = "displayed" /\ root_group = "ramp"
  /\ current_dither_pattern = "light" /\ dither_frame = 0
  /\ current_image_index = 2

\* C6: at every dither tick on a displayed bitmap, the stored bitmap is the
\* displayed one, the base palette is its palette and the profile is its
\* analysis.
C6_TickSeesOneImage ==
  TickWillRun /\ HasPixelShader(current_group)
  => /\ current_bitmap_data[1] = root_group
     /\ current_bitmap_data[2] = ShaderOf(root_group)
     /\ \E raises \in BOOLEAN :
          current_dither_pattern =
            analyze_color_range(BitmapOf(root_group), ShaderOf(root_group), 100, raises)

\* C7 as stated: after a failed fetch the displayed bitmap, the base palette,
\* the profile and dither_frame are what they were when the previous
\* change_image returned.
C7_AsAtCycleEnd == [][FetchFailedStep => DisplayState' = cycle_end]_vars

\* C7 amended: a failed fetch leaves the displayed group, the stored bitmap
\* and base palette and the profile as they were when the previous
\* change_image returned, and dither_frame and the installed palette as they
\* were just before the fetch; ticks run on as before.
C7_FetchFailureKeeps ==
  [][FetchFailedStep
     => /\ root_group' = cycle_end.root_group
        /\ current_bitmap_data' = cycle_end.current_bitmap_data
        /\ current_dither_pattern' = cycle_end.current_dither_pattern
        /\ UNCHANGED <<root_group, current_group, current_bitmap_data,
                       current_dither_pattern, dither_frame, pixel_shader>>]_vars

\* a fetch has failed while "ramp" was shown and dithered, two ticks into a
\* round
C7_Witness ==
  /\ pc = "top" /\ event \in {"download_error", "download_failed"}
  /\ root_group = "ramp" /\ current_bitmap_data = <<"ramp", ShaderOf("ramp")>>
  /\ dither_frame = 2 /\ current_image_index = 2

\* C8: an adoption that fails at any step while an image is displayed leaves
\* the displayed group, the stored bitmap and base palette, the profile and
\* dither_frame as they were.
C8_FailedAdoptionKeeps ==
  [][AdoptionFailedStep /\ HasPixelShader(current_group)
     => UNCHANGED <<root_group, current_group, current_bitmap_data,
                    current_dither_pattern, dither_frame>>]_vars

\* C9: the loop stops on the user's interrupt only: no failed fetch, decode,
\* analysis, display update or dither tick takes run() out of its loop.
C9_ErrorsNeverStop ==
  [][pc' = "stopped" => pc = "stopped" \/ event' = "interrupt"]_vars

\* the loop is at its image-change check right after a tick that raised, with
\* an image-change behind it
C9_Witness ==
  /\ pc = "check" /\ event = "tick_error" /\ current_image_index = 3
  /\ clock = CYCLE_TIME /\ current_time = CYCLE_TIME

\* C10: every change_image requests the url at current_image_index and then
\* advances the index by one modulo the length of the list, whatever the
\* outcome; nothing else moves the index, which stays inside the list.
C10_IndexAdvances ==
  /\ [](current_image_index \in 0..(Len(IMAGE_URLS) - 1))
  /\ [][/\ ChangeStep =>
             /\ requested_url' = IMAGE_URLS[current_image_index + 1]
             /\ current_image_index' = (current_image_index + 1) % Len(IMAGE_URLS)
        /\ ~ChangeStep => UNCHANGED <<current_image_index, requested_url>>]_vars

\* the index has wrapped to 0 after a failed fetch of the last url
C10_Witness ==
  /\ pc = "top" /\ event = "download_error"
  /\ requested_url = IMAGE_URLS[Len(IMAGE_URLS)] /\ current_image_index = 0

\* C11: apart from the change_image of startup, a change_image begins only
\* when a timestamp is recorded and at least CYCLE_TIME has passed since it;
\* every change_image, whatever its outcome, records the timestamp anew, and
\* nothing else moves it, ticks included.
C11_FetchOnlyWhenDue ==
  [][/\ ChangeStep /\ pc # "start" => last_image_time /\ clock >= CYCLE_TIME
     /\ ChangeStep => last_image_time' /\ clock' = 0
     /\ ~ChangeStep => last_image_time' = last_image_time /\ clock' >= clock]_vars

\* the second change_image has failed at the request after the first one
\* failed past the decode, with two ticks run in between; the timestamp is
\* fresh again
C11_Witness ==
  /\ pc = "top" /\ event = "download_failed" /\ current_image_index = 2
  /\ root_group = "test" /\ dither_frame = 2 /\ last_image_time /\ clock = 0

\* what analyze_color_range can return for each indexed image at adoption
ProfilesOf ==
  [name \in IndexedImages |->
     {analyze_color_range(BitmapOf(name), ShaderOf(name), 100, raises) : raises \in BOOLEAN}]

\* the state an adoption of an indexed image leaves: the displayed group, the
\* stored bitmap and base palette and the profile are those of one image,
\* the counter is 0 and nothing has moved since change_image returned
FreshlyAdopted ==
  /\ dither_frame = 0
  /\ cycle_end = DisplayState
  /\ root_group \in IndexedImages /\ current_group = root_group
  /\ current_bitmap_data = <<root_group, ShaderOf(root_group)>>
  /\ current_dither_pattern \in ProfilesOf[root_group]

\* C12: change_image runs from the request to the end of the adoption or of
\* the failure handling as one step of the loop, in which no tick advances
\* the counter; an adoption of an indexed image leaves the freshly adopted
\* state, which stays until the next tick, and that tick takes the counter
\* from 0 to 1 and, when it completes, installs the new base palette offset
\* by the sign and magnitude of the new profile.
C12_TickAfterAdoption ==
  [][/\ ChangeStep => ~TickStep /\ dither_frame' \in {dither_frame, 0}
     /\ TickStep => requested_url' = requested_url
     /\ AdoptionStep /\ ShaderOf(root_group').type = "Palette" => FreshlyAdopted'
     /\ FreshlyAdopted /\ ~TickStep /\ ~ChangeStep => FreshlyAdopted'
     /\ FreshlyAdopted /\ TickStep
        => /\ dither_frame' = 1
           /\ event' = "tick"
              => IsOffsetOf(pixel_shader', ShaderOf(root_group),
                            SignAt(current_dither_pattern, 1),
                            MagnitudeOf(current_dither_pattern))]_vars

\* the counter is at 1 over "ramp", adopted by the second change_image, and
\* the palette installed is ramp's offset by +3, before any time has passed
C12_Witness ==
  /\ pc = "check" /\ event = "tick" /\ dither_frame = 1
  /\ cycle_end.dither_frame = 0 /\ cycle_end.root_group = "ramp"
  /\ root_group = "ramp" /\ current_image_index = 2 /\ clock = 0
  /\ current_dither_pattern = "light"
  /\ pixel_shader.colors[1] = Pack(3, 3, 8)

\* the sample statistics of an analysed input, from how the input is built:
\* the indices the bitmap uses and those of them the palette resolves
UsedIndices(a) == {a.first + k : k \in 0..(a.distinct - 2)} \cup {TopIndex(a)}

ValidUsedIndices(a) ==
  IF a.has_palette THEN {i \in UsedIndices(a) : i < a.pal_len} ELSE {}

\* at least one sample resolves to a colour (palette[0] is readable too)
HasValidSample(a) == a.has_palette /\ a.pal_len > 0 /\ ValidUsedIndices(a) # {}

\* 255 * brightnessRange: both greys are among the resolved samples or not
GreyGap(a) ==
  IF TopIndex(a) \in ValidUsedIndices(a) /\ ValidUsedIndices(a) # {TopIndex(a)}
  THEN a.greys[2] - a.greys[1]
  ELSE 0

\* the palette size the analyzer divides by
EstimatedSize(a) == IF TopIndex(a) + 50 > 256 THEN 256 ELSE TopIndex(a) + 50

\* the priority-ordered rules on gap = 255 * brightnessRange,
\* colorUsageRatio = unique / size and distinctIndicesObserved = unique
RuleProfile(gap, unique, size) ==
  LET rule1 == IF 10 * gap > 6 * 255 THEN "light"
               ELSE IF 100 * gap < 25 * 255 THEN "heavy"
               ELSE "medium"
      rule2 == IF 100 * unique < 15 * size THEN "heavy"
               ELSE IF 10 * unique > 4 * size THEN "light"
               ELSE rule1
  IN  IF unique < 20 THEN "heavy" ELSE IF unique > 100 THEN "light" ELSE rule2

\* C13: whenever at least one sample is valid and the analysis runs to its
\* end, analyze_color_range returns what the three rules give, each overriding
\* the one before, for the brightness range, the usage ratio it computed and
\* the number of distinct indices; with 10 of 256 entries used the result is
\* heavy for every brightness range.
C13_ProfileByRules ==
  fn_args.fn = "analyze_color_range" /\ fn_result # None
     /\ ~fn_args.raises /\ HasValidSample(fn_args)
  => /\ fn_result = RuleProfile(GreyGap(fn_args), fn_args.distinct, EstimatedSize(fn_args))
     /\ fn_args.distinct = 10 /\ fn_args.pal_len = 256 => fn_result = "heavy"

\* 10 of 256 entries used, from black to white, with a usage ratio of 10/59
\* that moves nothing: the third rule has overridden light by heavy
C13_Witness ==
  /\ fn_args.fn = "analyze_color_range" /\ fn_result = "heavy"
  /\ fn_args.distinct = 10 /\ fn_args.pal_len = 256 /\ fn_args.has_palette
  /\ fn_args.dense /\ fn_args.first = 0 /\ fn_args.greys = <<0, 255>>
  /\ ~fn_args.raises

\* an image of the two palette entries black and white, both sampled
BlackWhiteInput ==
  /\ fn_args.fn = "analyze_color_range" /\ ~fn_args.raises
  /\ fn_args.has_palette /\ fn_args.pal_len = 2 /\ fn_args.greys = <<0, 255>>
  /\ fn_args.distinct = 2 /\ fn_args.first = 0 /\ fn_args.dense

\* C14 as stated: for a black and white palette of 2 colours, both sampled,
\* analyze_color_range returns light.
C14_BlackWhiteLight == BlackWhiteInput /\ fn_result # None => fn_result = "light"

\* C14 amended: for a black and white palette of 2 colours, both sampled,
\* analyze_color_range returns heavy: 2 distinct indices are fewer than 20.
C14_BlackWhiteHeavy == BlackWhiteInput /\ fn_result # None => fn_result = "heavy"

\* the analysis of a 2x1 bitmap of one black and one white pixel has returned
C14_Witness == BlackWhiteInput /\ fn_args.size = <<2, 1>> /\ fn_result = "heavy"

\* C15: the usage ratio the classification uses is the number of distinct
\* sampled indices divided by the length of the palette: for a palette of 2
\* to 256 entries that holds every sampled index, the profile returned is
\* what the rules give for that ratio.
C15_RatioByPaletteLength ==
  fn_args.fn = "analyze_color_range" /\ fn_result # None
     /\ ~fn_args.raises /\ HasValidSample(fn_args) /\ fn_args.pal_len \in 2..256
     /\ ValidUsedIndices(fn_args) = UsedIndices(fn_args)
  => fn_result = RuleProfile(GreyGap(fn_args), fn_args.distinct, fn_args.pal_len)

\* C16: analyze_color_range always returns one of light, medium and heavy,
\* whether the palette is missing, empty or too short for the sampled indices
\* or a statement of the analysis raises; it returns medium whenever no
\* sample resolves to a palette colour, and whenever it raises.
C16_FailSoft ==
  fn_args.fn = "analyze_color_range" /\ fn_result # None
  => /\ fn_result \in {"light", "medium", "heavy"}
     /\ ~HasValidSample(fn_args) => fn_result = "medium"
     /\ fn_args.raises => fn_result = "medium"

\* palette[0] is readable, but the palette of 2 entries holds none of the 10
\* indices 5..14 of the bitmap: the analysis has returned medium
C16_Witness ==
  /\ fn_args.fn = "analyze_color_range" /\ fn_result = "medium"
  /\ fn_args.has_palette /\ fn_args.pal_len = 2 /\ ~fn_args.raises
  /\ fn_args.distinct = 10 /\ fn_args.first = 5 /\ fn_args.dense
  /\ fn_args.size = <<MaxSide, MaxSide>>

\* the number of 1 entries the specification gives each cycle
PositivesOf(profile) ==
  IF profile = "light" THEN 2 ELSE IF profile = "medium" THEN 1 ELSE 3

\* the ticks i .. i + 3 of the list that applied a positive offset
PositiveTicks(i) == {j \in i..(i + 3) : fn_result[j].sign = 1}

C18_OutputIsCanvas ==
  fn_args.fn = "smart_crop_resize" /\ fn_result.status # "none"
     /\ fn_args.image[1] > 0 /\ fn_args.image[2] > 0
     /\ fn_args.target_size[1] > 0 /\ fn_args.target_size[2] > 0
  => /\ fn_result.status = "ok"
     /\ fn_result.size[1] = fn_args.target_size[1]
     /\ fn_result.size[2] = fn_args.target_size[2]

\* a 6x2 image has been cropped to the middle 3x2 and resized to a 3x2 canvas
C18_Witness ==
  /\ fn_args.fn = "smart_crop_resize" /\ fn_result.status = "ok"
  /\ fn_args.image = <<6, 2>> /\ fn_args.target_size = <<3, 2>> /\ ~fn_args.float_low
  /\ fn_result.region = <<3, 2>> /\ fn_result.size = <<3, 2>>

\* the ranges of the options of the converter: palette size 2..256,
\* brightness 0.1..1.0, contrast 0.5..2.0, canvas of positive sides
OptionsInRange(args) ==
  /\ args.colors \in 2..256
  /\ args.brightness \in 10..100
  /\ args.contrast \in 50..200
  /\ args.size[1] > 0 /\ args.size[2] > 0

\* C19: every option is checked before any image is processed: a run of the
\* converter, entered from the command line or by using LEDMatrixConverter
\* directly, gets to its images only with every option in range.
C19_OptionsChecked ==
  fn_args.fn = "convert_images" /\ fn_result.status \in {"converting", "done"}
  => OptionsInRange(fn_args)

\* a source that the run converts without an error: Pillow reads it, it has
\* pixels, the canvas and the palette size can be produced, the BMP is written
SourceConverts(source, args) ==
  /\ source.readable /\ source.size[1] > 0 /\ source.size[2] > 0
  /\ args.size[1] > 0 /\ args.size[2] > 0
  /\ args.colors >= 1 /\ args.colors <= 256
  /\ ~source.save_raises

\* C20: in a batch, each image fails or succeeds on its own account: the
\* result of image i is a failure exactly when image i cannot be converted,
\* whatever happened to the images before it; the success count is the number
\* of successful results; every image of the batch has a result when the run
\* is done; and the matrix size, brightness and contrast of the converter are
\* those it was built with, before and after every image.
C20_BatchIsolation ==
  fn_args.fn = "convert_images" /\ fn_result.status \in {"converting", "done"}
  => /\ fn_result.matrix_size = fn_args.size
     /\ fn_result.brightness_factor = fn_args.brightness
     /\ fn_result.contrast_factor = fn_args.contrast
     /\ \A i \in 1..Len(fn_result.results) :
          /\ fn_result.results[i].ok = SourceConverts(fn_args.files[i], fn_args)
          /\ fn_result.results[i].ok => fn_result.results[i].size = fn_args.size
     /\ fn_result.success_count =
          Cardinality({i \in 1..Len(fn_result.results) : fn_result.results[i].ok})
     /\ fn_result.status = "done" => Len(fn_result.results) = Len(fn_args.files)

\* a batch from the command line is done: its first image, of height 0, has
\* failed and its second has been converted to the 4x4 canvas
C20_Witness ==
  /\ fn_args.fn = "convert_images" /\ fn_args.entry = "main"
  /\ fn_result.status = "done" /\ Len(fn_args.files) = 2
  /\ fn_args.files[1].size = <<3, 0>> /\ fn_args.files[2].size = <<4, 2>>
  /\ fn_args.size = <<4, 4>>
  /\ fn_result.results = <<[ok |-> FALSE, size |-> <<0, 0>>], [ok |-> TRUE, size |-> <<4, 4>>]>>
  /\ fn_result.success_count = 1

\* C21: every image the display has adopted with a palette has a palette of
\* 2 to 256 entries and a bitmap whose every index is below the palette
\* length; a file that breaks this is refused at decode and never shown.
C21_AdoptedWellFormed ==
  (fn_args.fn = "decode" /\ current_bitmap_data # NoData
     /\ root_group = current_bitmap_data[1]) =>
    LET bitmap == BitmapOf(current_bitmap_data[1])
        palette == current_bitmap_data[2]
    IN  /\ Len(palette.colors) \in 2..256
        /\ \A xy \in DOMAIN bitmap.pixels : ValidIndex(palette, bitmap.pixels[xy])

\* the crop of a source of positive size for a canvas of positive size,
\* with the quotient as exact arithmetic gives it
CropCase ==
  /\ fn_args.fn = "smart_crop_resize"
  /\ fn_result # NotCalled
  /\ \A i \in 1..2 : fn_args.image[i] >= 1 /\ fn_args.target_size[i] >= 1
  /\ ~fn_args.float_low

\* C23: for a source W x H and a canvas w x h of positive integers the
\* crop box lies inside the source, has positive width and height, keeps
\* the full height when the source is relatively wider and the full width
\* when it is relatively taller, is centred (the two margins differ by at
\* most one pixel) and is the whole source when the ratios are equal.
C23_CropBoxSound ==
  CropCase =>
    LET W == fn_args.image[1]
        H == fn_args.image[2]
        w == fn_args.target_size[1]
        h == fn_args.target_size[2]
        box == crop_box(fn_args.image, fn_args.target_size, fn_args.float_low)
        margins == <<box[1], W - box[3], box[2], H - box[4]>>
    IN  /\ 0 <= box[1] /\ box[3] <= W /\ 0 <= box[2] /\ box[4] <= H
        /\ box[1] < box[3] /\ box[2] < box[4]
        /\ W * h > w * H => box[2] = 0 /\ box[4] = H
        /\ W * h < w * H => box[1] = 0 /\ box[3] = W
        /\ margins[1] - margins[2] \in -1..1
        /\ margins[3] - margins[4] \in -1..1
        /\ W * h = w * H => box = <<0, 0, W, H>>

\* entry by entry, shader is base, each entry left as it was or moved by m
\* up or down
SameEntries(shader, base, m) ==
  \A i \in 1..Min(Len(shader.colors), Len(base.colors)) :
    \E sign \in {-1, 0, 1} :
      /\ Red(shader.colors[i]) = Offset(Red(base.colors[i]), sign, m)
      /\ Green(shader.colors[i]) = Offset(Green(base.colors[i]), sign, m)
      /\ Blue(shader.colors[i]) = Offset(Blue(base.colors[i]), sign, m)

\* C24: every palette a dither tick installs has as many entries as the
\* base palette stored at adoption, and its entry i comes from base entry i:
\* a tick never reorders, drops or adds an entry.
C24_SameLength ==
  (fn_args.fn = "decode" /\ pc = "check" /\ event \in {"tick", "tick_fallback"}
     /\ HasPixelShader(current_group))
  => /\ Len(pixel_shader.colors) = Len(current_bitmap_data[2].colors)
     /\ SameEntries(pixel_shader, current_bitmap_data[2],
                    MagnitudeOf(current_dither_pattern))

\* C25: for a bitmap of W x H, both at least 1, and the default 100
\* samples, the step of an axis is max(1, dim div 10) and depends on that
\* axis alone; every sampled coordinate lies inside the bitmap; an axis gets
\* at least min(dim, 10) and at most 19 samples, so one analysis reads at
\* most 361 pixels.
C25_SampleGrid ==
  (fn_args.fn = "sample_grid" /\ fn_result # NotCalled) =>
    LET W == fn_args.width
        H == fn_args.height
    IN  /\ fn_result.step_x = Max(1, W \div 10)
        /\ fn_result.step_y = Max(1, H \div 10)
        /\ fn_result.xs \subseteq 0..(W - 1)
        /\ fn_result.ys \subseteq 0..(H - 1)
        /\ Cardinality(fn_result.xs) \in Min(W, 10)..19
        /\ Cardinality(fn_result.ys) \in Min(H, 10)..19
        /\ Cardinality(fn_result.xs \X fn_result.ys) <= 361

\* a bitmap 19 wide and 20 high: 19 columns at step 1, 10 rows at step 2
C25_Witness ==
  /\ fn_args.fn = "sample_grid" /\ fn_result # NotCalled
  /\ fn_args.width = 19 /\ fn_args.height = 20
  /\ fn_result.step_x = 1 /\ fn_result.step_y = 2
  /\ Cardinality(fn_result.xs) = 19 /\ Cardinality(fn_result.ys) = 10

\* the latest request was for the reference that is still the current one:
\* the attempt that made it did not advance the index
RetryPending ==
  fn_args.fn = "backoff" /\ requested_url = IMAGE_URLS[current_image_index + 1]

\* a call of change_image made by the loop, returning or not
LoopAttempt == pc = "check" /\ pc' \in {"top", "backoff", "crashed"} /\ event' # "not_due"

\* C26: an error that leaves change_image inside the main loop before the
\* index is advanced and the time recorded does not end the loop: index and
\* timestamp stay as they were, the loop sleeps 1 second and goes on, and the
\* next check finds the change still due and asks for the same reference.
C26_RetrySameImage ==
  /\ [][/\ (LoopAttempt /\ pc' # "top") =>
            /\ pc' = "backoff"
            /\ current_image_index' = current_image_index
            /\ last_image_time' = last_image_time
            /\ RetryPending'
        /\ pc = "backoff" =>
            /\ pc' = "top" /\ fn_result' = 1
            /\ clock' = Min(CYCLE_TIME, clock + 1)
            /\ current_image_index' = current_image_index
            /\ last_image_time' = last_image_time
        /\ (RetryPending /\ LoopAttempt) => requested_url' = requested_url
        /\ (fn_args.fn = "backoff" /\ pc' = "crashed") => pc = "start"]_vars
  /\ [](RetryPending /\ pc = "check" /\ last_image_time => ImageDue)

\* the loop is in its backoff: the request for the second reference failed
\* and its report raised, the first image is still on display
C26_Witness ==
  /\ pc = "backoff" /\ event = "download_error"
  /\ current_image_index = 1 /\ requested_url = IMAGE_URLS[2]
  /\ root_group = "bw" /\ last_image_time

\* C27: when the image adopted last is direct-colour, or dithering is
\* disabled, the adoption has cleared the stored bitmap and palette and set
\* the profile to medium, and every later tick does nothing: dither_frame
\* stays 0 and the pixel shader of the image on display is not replaced.
C27_DirectColourIdle ==
  [][/\ (AdoptionStep /\ (root_group' \in DirectImages \/ ~dithering)) =>
          /\ current_bitmap_data' = NoData
          /\ current_dither_pattern' = "medium"
          /\ dither_frame' = 0
     /\ (TickStep /\ (root_group \in DirectImages \/ ~dithering)) =>
          /\ dither_frame = 0 /\ dither_frame' = 0
          /\ pixel_shader' = pixel_shader
          /\ pixel_shader.type # "Palette"]_vars

\* what a call of update_dither_frame leaves in event
TickEvents == {"tick_skipped", "tick", "tick_fallback", "tick_error"}

\* C28: between any two consecutive calls of change_image, the first one
\* of run() and the second included, update_dither_frame is called at least
\* once: a call of change_image leaves an event that is not a tick's, only
\* a tick brings a tick's event, and the loop calls change_image only when the
\* latest event is a tick's.
C28_TickBetweenChanges ==
  [][/\ ChangeStep => event' \notin TickEvents
     /\ (ChangeStep /\ pc = "check") => event \in TickEvents
     /\ (event' \in TickEvents /\ event' # event) => TickStep]_vars

\* the first image is up, a cycle time has passed, the tick of this
\* iteration has been called and the second change is about to be made
C28_Witness ==
  /\ pc = "check" /\ ImageDue /\ current_image_index = 1
  /\ event = "tick" /\ dither_frame = 1 /\ requested_url = IMAGE_URLS[1]

\* C29: while time advances and the loop keeps running, change_image is
\* called again and again, and every reference of IMAGE_URLS is requested
\* again and again, even when every request fails.
C29_EveryImageForever ==
  \A i \in 1..Len(IMAGE_URLS) :
    []<>(<<ChangeStep /\ requested_url' = IMAGE_URLS[i]>>_vars)

\* every request has failed and the list has been gone through once: the
\* fourth reference was the latest asked for, the index is back at the
\* first, the test pattern is still up
C29_Witness ==
  /\ fn_args.fn = "run" /\ pc = "top" /\ event = "download_error"
  /\ current_image_index = 0 /\ requested_url = IMAGE_URLS[Len(IMAGE_URLS)]
  /\ root_group = "test" /\ clock = 0

====
